---- MODULE Spec2Model ----
(***************************************************************************)
(* Split-kar: split calculator (lib/split.ts), balance aggregator and      *)
(* settlement optimizer (lib/settlement.ts).                               *)
(*                                                                         *)
(* Money is a JavaScript number, an IEEE-754 binary64 value.  Inputs are   *)
(* decimal amounts, written here in mills (1/1000 of the currency unit),   *)
(* so 0.01 is Cent = 10.  A computed number is a record [v, e]: the        *)
(* binary64 value v/1000 + e * 2^-62 / 125, where v is the decimal amount  *)
(* in mills and e the representation error the arithmetic has accumulated. *)
(* 0.36 - 0.35 and 0.01 have the same v and different e, and the code's    *)
(* comparisons with 0.01 see the difference.                               *)
(*                                                                         *)
(* A JavaScript Map is a sequence of [key, value] records with distinct    *)
(* keys, in insertion order (the order a Map iterates in).                 *)
(***************************************************************************)
EXTENDS Integers, Sequences, FiniteSets, TLC

Cent == 10
SplitTolerance == 20
Undefined == 0 - 1

MaxTx == 2
MaxBalances == 4

Range(s) == {s[i] : i \in 1..Len(s)}

(***************************************************************************)
(* binary64 arithmetic on decimal amounts                                  *)
(*                                                                         *)
(* In units of 2^-62 / 125 the decimal v/1000 is v * 2^59, and the doubles *)
(* with binary exponent x are the multiples of 125 * 2^(x + 10).  Rounding *)
(* to nearest, ties to even, needs v * 2^59 modulo that spacing only,      *)
(* which is 2^(x + 10) * ((v * 2^(49 - x)) mod 125).                       *)
(***************************************************************************)
\* 2^n modulo 125, for n up to 60
Pow2Mod125(n) ==
    IF n <= 30 THEN (2 ^ n) % 125 ELSE (((2 ^ (n - 30)) % 125) * ((2 ^ 30) % 125)) % 125

\* the x with 2^x <= v / 1000 < 2^(x + 1), for v > 0 (called with x = 0)
RECURSIVE ExponentFrom(_, _)
ExponentFrom(v, x) ==
    IF v >= 2000 THEN ExponentFrom(v \div 2, x + 1)
    ELSE IF v < 1000 THEN ExponentFrom(2 * v, x - 1)
    ELSE x

\* v / 1000 is the power of two 2^x
IsPow2(v, x) == IF x <= 0 THEN v * (2 ^ (0 - x)) = 1000 ELSE v = 1000 * (2 ^ x)

\* a power of two less a representation error lies in the binade below x
ExponentNear(v, e, x) == IF IsPow2(v, x) /\ e < 0 THEN x - 1 ELSE x

\* the binary exponent of v / 1000 + e, for v > 0
Exponent(v, e) == ExponentNear(v, e, ExponentFrom(v, 0))

\* v * 2^59 + e modulo m times the spacing of the doubles with exponent x
Remainder(v, e, x, m) ==
    (m * (2 ^ (x + 10)) * ((v * Pow2Mod125(50 - m - x)) % 125) + e) % (m * 125 * (2 ^ (x + 10)))

\* round to nearest, ties to even: rest is the remainder modulo the spacing,
\* rest2 the remainder modulo twice the spacing
RoundsUp(rest, rest2, spacing) ==
    IF 2 * rest < spacing THEN FALSE
    ELSE IF 2 * rest > spacing THEN TRUE
    ELSE rest2 >= spacing

Nearest(v, e, rest, rest2, spacing) ==
    [v |-> v, e |-> e - rest + (IF RoundsUp(rest, rest2, spacing) THEN spacing ELSE 0)]

RoundInBinade(v, e, x) ==
    Nearest(v, e, Remainder(v, e, x, 1), Remainder(v, e, x, 2), 125 * (2 ^ (x + 10)))

\* the double nearest to the exact value v / 1000 + e, for v > 0
RoundPositive(v, e) == RoundInBinade(v, e, Exponent(v, e))

\* s * a, for a sign s
Signed(a, s) == [v |-> s * a.v, e |-> s * a.e]

\* the double nearest to the exact value v / 1000 + e, for v of sign s
RoundSigned(v, e, s) == Signed(RoundPositive(s * v, s * e), s)

\* the double nearest to the exact value v / 1000 + e
RoundToDouble(v, e) ==
    IF v = 0 THEN [v |-> 0, e |-> e] ELSE RoundSigned(v, e, IF v < 0 THEN 0 - 1 ELSE 1)

\* a decimal literal or input, and the quotient k / 100 of an integer k
Num(v) == RoundToDouble(v, 0)

Zero == [v |-> 0, e |-> 0]

\* a + b, a - b, a * n for an integer n
Add(a, b) == RoundToDouble(a.v + b.v, a.e + b.e)

Sub(a, b) == RoundToDouble(a.v - b.v, a.e - b.e)

Times(a, n) == RoundToDouble(a.v * n, a.e * n)

\* a < b, a <= b, a > b
Less(a, b) == a.v < b.v \/ (a.v = b.v /\ a.e < b.e)

LessEq(a, b) == a.v < b.v \/ (a.v = b.v /\ a.e <= b.e)

Greater(a, b) == Less(b, a)

\* Math.abs, Math.min
Abs(a) == IF Less(a, Zero) THEN Signed(a, 0 - 1) ELSE a

Min(a, b) == IF Less(b, a) THEN b ELSE a

\* Math.round(p) / 100 for a product p = a * 100: Math.round is floor(p + 0.5)
RoundHundredths(p) ==
    Num(Cent * (IF p.v % 1000 > 500 \/ (p.v % 1000 = 500 /\ p.e >= 0)
                THEN (p.v \div 1000) + 1 ELSE p.v \div 1000))

\* Math.round(a * 100) / 100: the representation error of a decides the
\* result at a half cent only; anywhere else it is the nearest cent
Round2(a) ==
    IF a.v % Cent = 5 THEN RoundHundredths(Times(a, 100))
    ELSE Num(Cent * ((a.v + 5) \div Cent))

(***************************************************************************)
(* Map<string, number>                                                     *)
(***************************************************************************)
MapHas(m, k) == \E i \in 1..Len(m) : m[i].key = k

MapIndex(m, k) == CHOOSE i \in 1..Len(m) : m[i].key = k

\* map.get(k) || 0
MapGetOr0(m, k) == IF MapHas(m, k) THEN m[MapIndex(m, k)].value ELSE Zero

\* map.set(k, v): an existing key keeps its place, a new key goes last
MapSet(m, k, v) ==
    IF MapHas(m, k)
    THEN [i \in 1..Len(m) |-> IF m[i].key = k THEN [key |-> k, value |-> v] ELSE m[i]]
    ELSE Append(m, [key |-> k, value |-> v])

MapKeys(m) == {m[i].key : i \in 1..Len(m)}

(***************************************************************************)
(* lib/split.ts                                                            *)
(***************************************************************************)

\* The (amount, participant count) pairs, amount a whole number of cents up
\* to 1.20 and count up to 4, for which (amount / count) * 100 evaluates in
\* binary64 to just below the integer number of cents that it is in exact
\* arithmetic (0.58 / 2 * 100 = 28.999999999999996).  Of the amounts above
\* 1.20 only 100.00 is used, with a count of 3, and 100 / 3 * 100 evaluates
\* to 3333.3333333333335.
Binary64Below ==
    { <<210, 3>>, <<290, 1>>, <<420, 3>>, <<570, 1>>, <<570, 3>>, <<580, 1>>,
      <<580, 2>>, <<840, 3>>, <<870, 3>>, <<1130, 1>>, <<1140, 1>>, <<1140, 2>>,
      <<1140, 3>>, <<1150, 1>>, <<1160, 1>>, <<1160, 2>>, <<1160, 4>>, <<1170, 3>> }

\* Math.floor((amount / participants.length) * 100) / 100, amount in mills
baseAmount(amount, n) ==
    LET cents == amount \div (Cent * n)
    IN  Num(Cent * (IF <<amount, n>> \in Binary64Below THEN cents - 1 ELSE cents))

RECURSIVE EqualLoop(_, _, _, _, _)
EqualLoop(result, participants, i, base, remainder) ==
    IF i > Len(participants) THEN result
    ELSE LET finalAmount == IF i = 1 THEN Add(base, remainder) ELSE base
         IN  EqualLoop(MapSet(result, participants[i], Round2(finalAmount)),
                       participants, i + 1, base, remainder)

\* an equal split that gives the remainder to the last participant
RECURSIVE EqualLoopRemainderLast(_, _, _, _, _)
EqualLoopRemainderLast(result, participants, i, base, remainder) ==
    IF i > Len(participants) THEN result
    ELSE LET finalAmount == IF i = Len(participants) THEN Add(base, remainder) ELSE base
         IN  EqualLoopRemainderLast(MapSet(result, participants[i], Round2(finalAmount)),
                                    participants, i + 1, base, remainder)

calculateEqualSplitRemainderLast(amount, participants) ==
    LET n == Len(participants)
        base == baseAmount(amount, n)
        remainder == Round2(Sub(Num(amount), Times(base, n)))
    IN  EqualLoopRemainderLast(<<>>, participants, 1, base, remainder)

calculateEqualSplit(amount, participants) ==
    LET n == Len(participants)
        base == baseAmount(amount, n)
        remainder == Round2(Sub(Num(amount), Times(base, n)))
    IN  EqualLoop(<<>>, participants, 1, base, remainder)

RECURSIVE calculateFixedSplit(_)
calculateFixedSplit(splitDetails) ==
    IF Len(splitDetails) = 0 THEN <<>>
    ELSE LET n == Len(splitDetails)
             detail == splitDetails[n]
             result == calculateFixedSplit(SubSeq(splitDetails, 1, n - 1))
         IN  IF detail.amount # Undefined
             THEN MapSet(result, detail.participant, Num(detail.amount))
             ELSE result

\* Math.round(((amount * weight) / total) * 100) / 100, amount in mills; the
\* quotient is taken exactly, which is what binary64 yields unless it lies
\* within representation error of a half cent
RoundedShare(amount, weight, total) ==
    Num(((2 * amount * weight + Cent * total) \div (2 * Cent * total)) * Cent)

\* first pass of calculatePercentageSplit / calculateShareSplit over the
\* details 1..n: the result map and totalCalculated
RECURSIVE FirstPass(_, _, _, _, _)
FirstPass(amount, splitDetails, n, field, total) ==
    IF n = 0 THEN [result |-> <<>>, totalCalculated |-> Zero]
    ELSE LET acc == FirstPass(amount, splitDetails, n - 1, field, total)
             detail == splitDetails[n]
             weight == IF field = "percentage" THEN detail.percentage ELSE detail.shares
         IN  IF weight # Undefined
             THEN LET roundedAmount == RoundedShare(amount, weight, total)
                  IN  [result |-> MapSet(acc.result, detail.participant, roundedAmount),
                       totalCalculated |-> Add(acc.totalCalculated, roundedAmount)]
             ELSE acc

\* a split that leaves the rounded first-pass amounts as they are
AdjustNothing(amount, splitDetails, pass) == pass.result

\* adjust for rounding errors on the last participant
AdjustLast(amount, splitDetails, pass) ==
    LET diff == Round2(Sub(Num(amount), pass.totalCalculated))
    IN  IF diff.v # 0 /\ Len(splitDetails) > 0
        THEN LET lastParticipant == splitDetails[Len(splitDetails)].participant
                 currentAmount == MapGetOr0(pass.result, lastParticipant)
             IN  MapSet(pass.result, lastParticipant, Add(currentAmount, diff))
        ELSE pass.result

calculatePercentageSplit(amount, splitDetails) ==
    AdjustLast(amount, splitDetails,
               FirstPass(amount, splitDetails, Len(splitDetails), "percentage", 100))

RECURSIVE TotalShares(_)
TotalShares(splitDetails) ==
    IF Len(splitDetails) = 0 THEN 0
    ELSE LET d == splitDetails[1]
         IN  (IF d.shares = Undefined THEN 0 ELSE d.shares) + TotalShares(Tail(splitDetails))

\* a share split that owes every named participant 0 when no shares are given
calculateShareSplitOfZeroes(amount, splitDetails) ==
    IF TotalShares(splitDetails) = 0
    THEN [k \in 1..Len(splitDetails) |-> [key |-> splitDetails[k].participant, value |-> Zero]]
    ELSE AdjustLast(amount, splitDetails,
                    FirstPass(amount, splitDetails, Len(splitDetails), "shares",
                              TotalShares(splitDetails)))

calculateShareSplit(amount, splitDetails) ==
    LET totalShares == TotalShares(splitDetails)
    IN  IF totalShares = 0 THEN <<>>
        ELSE AdjustLast(amount, splitDetails,
                        FirstPass(amount, splitDetails, Len(splitDetails), "shares", totalShares))

calculateSplitAmounts(transaction) ==
    CASE transaction.splitType = "equal" ->
             calculateEqualSplit(transaction.amount, transaction.participants)
      [] transaction.splitType = "fixed" ->
             calculateFixedSplit(transaction.splitDetails)
      [] transaction.splitType = "percentage" ->
             calculatePercentageSplit(transaction.amount, transaction.splitDetails)
      [] transaction.splitType = "shares" ->
             calculateShareSplit(transaction.amount, transaction.splitDetails)
      [] OTHER ->
             calculateEqualSplit(transaction.amount, transaction.participants)

\* let totalSplit = 0; for (const amount of splitAmounts.values()) totalSplit += amount
RECURSIVE TotalSplit(_)
TotalSplit(shares) ==
    IF Len(shares) = 0 THEN Zero
    ELSE Add(TotalSplit(SubSeq(shares, 1, Len(shares) - 1)), shares[Len(shares)].value)

\* a validateSplit that wants the payer among the participants in every mode
validateSplitAnyMode(transaction) ==
    LET totalSplit == TotalSplit(calculateSplitAmounts(transaction))
        diff == Abs(Sub(totalSplit, Num(transaction.amount)))
        sumError == IF Greater(diff, Num(SplitTolerance)) THEN <<"splitDetails">> ELSE <<>>
        payerIncluded == transaction.paidBy \in Range(transaction.participants)
        payerError == IF ~payerIncluded THEN <<"participants">> ELSE <<>>
    IN  sumError \o payerError

\* the fields of the errors validateSplit returns, in order
validateSplit(transaction) ==
    LET totalSplit == TotalSplit(calculateSplitAmounts(transaction))
        diff == Abs(Sub(totalSplit, Num(transaction.amount)))
        sumError == IF Greater(diff, Num(SplitTolerance)) THEN <<"splitDetails">> ELSE <<>>
        payerIncluded == transaction.paidBy \in Range(transaction.participants)
        payerError == IF transaction.splitType = "equal" /\ ~payerIncluded
                      THEN <<"participants">> ELSE <<>>
    IN  sumError \o payerError

(***************************************************************************)
(* lib/settlement.ts                                                       *)
(*                                                                         *)
(* An optional participant list is [defined |-> BOOLEAN, list |-> Seq]; a  *)
(* Balance is [participant, amount], a Settlement is [from, to, amount].   *)
(***************************************************************************)
NotProvided == [defined |-> FALSE, list |-> <<>>]

Provided(list) == [defined |-> TRUE, list |-> list]

\* the comparator reversed: (a, b) => a.amount - b.amount
RECURSIVE SortByAmountAsc(_)
SortByAmountAsc(s) ==
    IF Len(s) = 0 THEN s
    ELSE LET r == SortByAmountAsc(SubSeq(s, 1, Len(s) - 1))
             x == s[Len(s)]
             k == Cardinality({i \in 1..Len(r) : LessEq(r[i].amount, x.amount)})
         IN  SubSeq(r, 1, k) \o <<x>> \o SubSeq(r, k + 1, Len(r))

\* a descending sort that puts an entry before the earlier entries it equals
RECURSIVE SortByAmountDescUnstable(_)
SortByAmountDescUnstable(s) ==
    IF Len(s) = 0 THEN s
    ELSE LET r == SortByAmountDescUnstable(SubSeq(s, 1, Len(s) - 1))
             x == s[Len(s)]
             k == Cardinality({i \in 1..Len(r) : Less(x.amount, r[i].amount)})
         IN  SubSeq(r, 1, k) \o <<x>> \o SubSeq(r, k + 1, Len(r))

\* Array.prototype.sort((a, b) => b.amount - a.amount): descending, stable
RECURSIVE SortByAmountDesc(_)
SortByAmountDesc(s) ==
    IF Len(s) = 0 THEN s
    ELSE LET r == SortByAmountDesc(SubSeq(s, 1, Len(s) - 1))
             x == s[Len(s)]
             k == Cardinality({i \in 1..Len(r) : LessEq(x.amount, r[i].amount)})
         IN  SubSeq(r, 1, k) \o <<x>> \o SubSeq(r, k + 1, Len(r))

\* for (const p of allParticipants) balanceMap.set(p, 0)
RECURSIVE InitBalanceMap(_)
InitBalanceMap(list) ==
    IF Len(list) = 0 THEN <<>>
    ELSE MapSet(InitBalanceMap(SubSeq(list, 1, Len(list) - 1)), list[Len(list)], Zero)

\* for (const [participant, amount] of splitAmounts) balanceMap.set(participant, current - amount)
RECURSIVE DebitShares(_, _)
DebitShares(balanceMap, shares) ==
    IF Len(shares) = 0 THEN balanceMap
    ELSE LET s == shares[1]
             currentBalance == MapGetOr0(balanceMap, s.key)
         IN  DebitShares(MapSet(balanceMap, s.key, Sub(currentBalance, s.value)), Tail(shares))

\* the loop body debiting every share but the payer's own
ApplyTransactionSkippingPayerShare(balanceMap, transaction) ==
    LET currentPayerBalance == MapGetOr0(balanceMap, transaction.paidBy)
        credited == MapSet(balanceMap, transaction.paidBy,
                           Add(currentPayerBalance, Num(transaction.amount)))
        shares == calculateSplitAmounts(transaction)
        others == SelectSeq(shares, LAMBDA s : s.key # transaction.paidBy)
    IN  DebitShares(credited, others)

\* one iteration of the loop over the transactions
ApplyTransaction(balanceMap, transaction) ==
    LET currentPayerBalance == MapGetOr0(balanceMap, transaction.paidBy)
        credited == MapSet(balanceMap, transaction.paidBy,
                           Add(currentPayerBalance, Num(transaction.amount)))
    IN  DebitShares(credited, calculateSplitAmounts(transaction))

RECURSIVE FoldTransactions(_, _)
FoldTransactions(balanceMap, txs) ==
    IF Len(txs) = 0 THEN balanceMap
    ELSE FoldTransactions(ApplyTransaction(balanceMap, txs[1]), Tail(txs))

\* the near-zero test with <= in place of <: a balance of one cent is dropped
FinalAmountSnappingCent(amount) ==
    LET roundedAmount == Round2(amount)
    IN  IF LessEq(Abs(roundedAmount), Num(Cent)) THEN Zero ELSE roundedAmount

\* round to 2 decimal places, then treat near-zero as exactly zero
FinalAmount(amount) ==
    LET roundedAmount == Round2(amount)
    IN  IF Less(Abs(roundedAmount), Num(Cent)) THEN Zero ELSE roundedAmount

\* participants of allParticipants that are missing from the balances
RECURSIVE AddMissing(_, _)
AddMissing(bs, list) ==
    IF Len(list) = 0 THEN bs
    ELSE LET p == list[1]
         IN  IF \E i \in 1..Len(bs) : bs[i].participant = p
             THEN AddMissing(bs, Tail(list))
             ELSE AddMissing(Append(bs, [participant |-> p, amount |-> Zero]), Tail(list))

\* calculateBalances without the knownParticipants handling of lines 27-31 and 75-84
calculateBalancesIgnoringKnown(txs, known) ==
    LET balanceMap == FoldTransactions(<<>>, txs)
        bs == [i \in 1..Len(balanceMap) |->
                  [participant |-> balanceMap[i].key,
                   amount |-> FinalAmount(balanceMap[i].value)]]
    IN  SortByAmountDesc(bs)

calculateBalances(txs, known) ==
    LET initial == IF known.defined THEN InitBalanceMap(known.list) ELSE <<>>
        balanceMap == FoldTransactions(initial, txs)
        bs == [i \in 1..Len(balanceMap) |->
                  [participant |-> balanceMap[i].key,
                   amount |-> FinalAmount(balanceMap[i].value)]]
        all == IF known.defined THEN AddMissing(bs, known.list) ELSE bs
    IN  SortByAmountDesc(all)

\* the splitAmounts calculateBalances computes and logs, per transaction
SplitAmountsOf(txs) == [k \in 1..Len(txs) |-> calculateSplitAmounts(txs[k])]

\* const balanceMap = new Map(); for (const b of balances) balanceMap.set(b.participant, b.amount)
RECURSIVE CopyBalances(_)
CopyBalances(bs) ==
    IF Len(bs) = 0 THEN <<>>
    ELSE LET b == bs[Len(bs)]
         IN  MapSet(CopyBalances(SubSeq(bs, 1, Len(bs) - 1)), b.participant, b.amount)

\* a partition that takes every amount above zero for a creditor
CreditorsAboveZero(balanceMap) ==
    LET kept == SelectSeq(balanceMap, LAMBDA b : Greater(b.value, Zero))
    IN  [k \in 1..Len(kept) |->
            [participant |-> kept[k].key, amount |-> kept[k].value, alias |-> 0]]

\* a partition that takes the caller's own entries for the creditor objects
CreditorsOfCallerEntries(balanceMap) ==
    LET kept == SelectSeq([k \in 1..Len(balanceMap) |-> k],
                          LAMBDA k : Greater(balanceMap[k].value, Num(Cent)))
    IN  [m \in 1..Len(kept) |->
            [participant |-> balanceMap[kept[m]].key, amount |-> balanceMap[kept[m]].value,
             alias |-> kept[m]]]

\* creditors: the entries above 0.01, in map order
RECURSIVE Creditors(_)
Creditors(balanceMap) ==
    IF Len(balanceMap) = 0 THEN <<>>
    ELSE LET b == balanceMap[1]
         IN  IF Greater(b.value, Num(Cent))
             THEN <<[participant |-> b.key, amount |-> b.value, alias |-> 0]>>
                  \o Creditors(Tail(balanceMap))
             ELSE Creditors(Tail(balanceMap))

\* debtors: the entries below -0.01, kept as magnitudes, in map order
RECURSIVE Debtors(_)
Debtors(balanceMap) ==
    IF Len(balanceMap) = 0 THEN <<>>
    ELSE LET b == balanceMap[1]
         IN  IF Less(b.value, Num(0 - Cent))
             THEN <<[participant |-> b.key, amount |-> Abs(b.value), alias |-> 0]>>
                  \o Debtors(Tail(balanceMap))
             ELSE Debtors(Tail(balanceMap))

\* a walk over the creditors and debtors in map order
StartWalkUnsorted(bs) ==
    LET balanceMap == CopyBalances(bs)
    IN  [creditors |-> Creditors(balanceMap),
         debtors |-> Debtors(balanceMap),
         i |-> 1, j |-> 1, iterations |-> 0, settlements |-> <<>>]

\* the state of the matching walk before its first iteration
StartWalk(bs) ==
    LET balanceMap == CopyBalances(bs)
    IN  [creditors |-> SortByAmountDesc(Creditors(balanceMap)),
         debtors |-> SortByAmountDesc(Debtors(balanceMap)),
         i |-> 1, j |-> 1, iterations |-> 0, settlements |-> <<>>]

\* while (i < creditors.length && j < debtors.length), with 1-based cursors
WalkRunning(w) == w.i <= Len(w.creditors) /\ w.j <= Len(w.debtors)

\* an iteration that never transfers more than 1.00 at a time
WalkStepInInstalments(w) ==
    LET creditor == w.creditors[w.i]
        debtor == w.debtors[w.j]
        settlementAmount == Min(Min(creditor.amount, debtor.amount), Num(1000))
        emit == Greater(settlementAmount, Num(Cent))
        creditorLeft == IF emit THEN Sub(creditor.amount, settlementAmount) ELSE creditor.amount
        debtorLeft == IF emit THEN Sub(debtor.amount, settlementAmount) ELSE debtor.amount
    IN  IF LessEq(creditor.amount, Num(Cent)) THEN [w EXCEPT !.i = w.i + 1, !.iterations = w.iterations + 1]
        ELSE IF LessEq(debtor.amount, Num(Cent)) THEN [w EXCEPT !.j = w.j + 1, !.iterations = w.iterations + 1]
        ELSE [creditors |-> [w.creditors EXCEPT ![w.i].amount = creditorLeft],
              debtors |-> [w.debtors EXCEPT ![w.j].amount = debtorLeft],
              iterations |-> w.iterations + 1,
              i |-> IF LessEq(creditorLeft, Num(Cent)) THEN w.i + 1 ELSE w.i,
              j |-> IF LessEq(debtorLeft, Num(Cent)) THEN w.j + 1 ELSE w.j,
              settlements |->
                  IF emit
                  THEN Append(w.settlements,
                              [from |-> debtor.participant, to |-> creditor.participant,
                               amount |-> Round2(settlementAmount)])
                  ELSE w.settlements]

\* an iteration that transfers the larger of the two remaining amounts
WalkStepSettlingLarger(w) ==
    LET creditor == w.creditors[w.i]
        debtor == w.debtors[w.j]
        settlementAmount == IF Less(creditor.amount, debtor.amount)
                            THEN debtor.amount ELSE creditor.amount
        emit == Greater(settlementAmount, Num(Cent))
        creditorLeft == IF emit THEN Sub(creditor.amount, settlementAmount) ELSE creditor.amount
        debtorLeft == IF emit THEN Sub(debtor.amount, settlementAmount) ELSE debtor.amount
    IN  IF LessEq(creditor.amount, Num(Cent)) THEN [w EXCEPT !.i = w.i + 1, !.iterations = w.iterations + 1]
        ELSE IF LessEq(debtor.amount, Num(Cent)) THEN [w EXCEPT !.j = w.j + 1, !.iterations = w.iterations + 1]
        ELSE [creditors |-> [w.creditors EXCEPT ![w.i].amount = creditorLeft],
              debtors |-> [w.debtors EXCEPT ![w.j].amount = debtorLeft],
              iterations |-> w.iterations + 1,
              i |-> IF LessEq(creditorLeft, Num(Cent)) THEN w.i + 1 ELSE w.i,
              j |-> IF LessEq(debtorLeft, Num(Cent)) THEN w.j + 1 ELSE w.j,
              settlements |->
                  IF emit
                  THEN Append(w.settlements,
                              [from |-> debtor.participant, to |-> creditor.participant,
                               amount |-> Round2(settlementAmount)])
                  ELSE w.settlements]

\* one iteration of the while loop
WalkStep(w) ==
    LET creditor == w.creditors[w.i]
        debtor == w.debtors[w.j]
        settlementAmount == Min(creditor.amount, debtor.amount)
        emit == Greater(settlementAmount, Num(Cent))
        creditorLeft == IF emit THEN Sub(creditor.amount, settlementAmount) ELSE creditor.amount
        debtorLeft == IF emit THEN Sub(debtor.amount, settlementAmount) ELSE debtor.amount
    IN  IF LessEq(creditor.amount, Num(Cent)) THEN [w EXCEPT !.i = w.i + 1, !.iterations = w.iterations + 1]
        ELSE IF LessEq(debtor.amount, Num(Cent)) THEN [w EXCEPT !.j = w.j + 1, !.iterations = w.iterations + 1]
        ELSE [creditors |-> [w.creditors EXCEPT ![w.i].amount = creditorLeft],
              debtors |-> [w.debtors EXCEPT ![w.j].amount = debtorLeft],
              iterations |-> w.iterations + 1,
              i |-> IF LessEq(creditorLeft, Num(Cent)) THEN w.i + 1 ELSE w.i,
              j |-> IF LessEq(debtorLeft, Num(Cent)) THEN w.j + 1 ELSE w.j,
              settlements |->
                  IF emit
                  THEN Append(w.settlements,
                              [from |-> debtor.participant, to |-> creditor.participant,
                               amount |-> Round2(settlementAmount)])
                  ELSE w.settlements]

\* the entries of a creditor or debtor list that are the caller's k-th object
Aliases(entries, k) == {m \in 1..Len(entries) : entries[m].alias = k}

AmountThrough(entries, k) == entries[CHOOSE m \in Aliases(entries, k) : TRUE].amount

\* the caller's balance list while the walk w goes on: an entry of the list
\* shows the amount of a creditor or debtor entry that is the same object
CallerList(bs, w) ==
    [k \in 1..Len(bs) |->
        IF Aliases(w.creditors, k) # {}
        THEN [bs[k] EXCEPT !.amount = AmountThrough(w.creditors, k)]
        ELSE IF Aliases(w.debtors, k) # {}
        THEN [bs[k] EXCEPT !.amount = AmountThrough(w.debtors, k)]
        ELSE bs[k]]

RECURSIVE RunWalk(_)
RunWalk(w) == IF WalkRunning(w) THEN RunWalk(WalkStep(w)) ELSE w

\* the unoptimized settlement: every debtor pays every creditor
PairEveryDebtorWithEveryCreditor(bs) ==
    LET w == StartWalk(bs)
        nc == Len(w.creditors)
    IN  [k \in 1..(nc * Len(w.debtors)) |->
            LET creditor == w.creditors[((k - 1) % nc) + 1]
                debtor == w.debtors[((k - 1) \div nc) + 1]
            IN  [from |-> debtor.participant, to |-> creditor.participant,
                 amount |-> Round2(Min(creditor.amount, debtor.amount))]]

calculateOptimizedSettlements(bs) == RunWalk(StartWalk(bs)).settlements

\* for (const s of settlements) { from += s.amount; to -= s.amount }
RECURSIVE ApplySettlements(_, _)
ApplySettlements(expectedBalances, ss) ==
    IF Len(ss) = 0 THEN expectedBalances
    ELSE LET s == ss[1]
             fromBalance == MapGetOr0(expectedBalances, s.from)
             toBalance == MapGetOr0(expectedBalances, s.to)
             afterFrom == MapSet(expectedBalances, s.from, Add(fromBalance, s.amount))
         IN  ApplySettlements(MapSet(afterFrom, s.to, Sub(toBalance, s.amount)), Tail(ss))

validateSettlements(bs, ss) ==
    LET expectedBalances == ApplySettlements(CopyBalances(bs), ss)
    IN  \A k \in 1..Len(expectedBalances) :
            ~Greater(Abs(expectedBalances[k].value), Num(Cent))

\* Array.from(new Set(transactions.flatMap(t => [t.paidBy, ...t.participants])))
RECURSIVE Distinct(_)
Distinct(s) ==
    IF Len(s) = 0 THEN <<>>
    ELSE LET r == Distinct(SubSeq(s, 1, Len(s) - 1))
             x == s[Len(s)]
         IN  IF x \in Range(r) THEN r ELSE Append(r, x)

RECURSIVE FlatMapNames(_)
FlatMapNames(txs) ==
    IF Len(txs) = 0 THEN <<>>
    ELSE <<txs[1].paidBy>> \o txs[1].participants \o FlatMapNames(Tail(txs))

\* transactions.reduce((sum, t) => sum + t.amount, 0)
RECURSIVE TotalAmount(_)
TotalAmount(txs) ==
    IF Len(txs) = 0 THEN Zero
    ELSE Add(TotalAmount(SubSeq(txs, 1, Len(txs) - 1)), Num(txs[Len(txs)].amount))

EmptyResult ==
    [settlements |-> <<>>, balances |-> <<>>, totalTransactions |-> 0,
     totalAmount |-> Zero, optimizedTransactions |-> 0]

\* calculateSettlement without the early return of lines 231-240
calculateSettlementWithoutEmptyCase(txs, known) ==
    LET participants == IF known.defined THEN known.list
                        ELSE Distinct(FlatMapNames(txs))
        bs == calculateBalances(txs, Provided(participants))
        ss == calculateOptimizedSettlements(bs)
    IN  [settlements |-> ss, balances |-> bs,
         totalTransactions |-> Len(txs),
         totalAmount |-> Round2(TotalAmount(txs)),
         optimizedTransactions |-> Len(ss)]

\* calculateSettlement with the two counts of the summary exchanged
calculateSettlementCountsExchanged(txs, known) ==
    IF Len(txs) = 0 THEN EmptyResult
    ELSE LET participants == IF known.defined THEN known.list
                             ELSE Distinct(FlatMapNames(txs))
             bs == calculateBalances(txs, Provided(participants))
             ss == calculateOptimizedSettlements(bs)
         IN  [settlements |-> ss, balances |-> bs,
              totalTransactions |-> Len(ss),
              totalAmount |-> Round2(TotalAmount(txs)),
              optimizedTransactions |-> Len(txs)]

\* calculateSettlement handing its own optional argument on, without the
\* inferred participant list of lines 243-245
calculateSettlementWithoutInference(txs, known) ==
    IF Len(txs) = 0 THEN EmptyResult
    ELSE LET bs == calculateBalances(txs, known)
             ss == calculateOptimizedSettlements(bs)
         IN  [settlements |-> ss, balances |-> bs,
              totalTransactions |-> Len(txs),
              totalAmount |-> Round2(TotalAmount(txs)),
              optimizedTransactions |-> Len(ss)]

calculateSettlement(txs, known) ==
    IF Len(txs) = 0 THEN EmptyResult
    ELSE LET participants == IF known.defined THEN known.list
                             ELSE Distinct(FlatMapNames(txs))
             bs == calculateBalances(txs, Provided(participants))
             ss == calculateOptimizedSettlements(bs)
         IN  [settlements |-> ss, balances |-> bs,
              totalTransactions |-> Len(txs),
              totalAmount |-> Round2(TotalAmount(txs)),
              optimizedTransactions |-> Len(ss)]

(***************************************************************************)
(* Inputs                                                                  *)
(***************************************************************************)
Tx(paidBy, amount, participants, splitType, splitDetails) ==
    [paidBy |-> paidBy, amount |-> amount, participants |-> participants,
     splitType |-> splitType, splitDetails |-> splitDetails]

FixedDetail(p, a) == [participant |-> p, amount |-> a, percentage |-> Undefined, shares |-> Undefined]

PercentDetail(p, x) == [participant |-> p, amount |-> Undefined, percentage |-> x, shares |-> Undefined]

ShareDetail(p, n) == [participant |-> p, amount |-> Undefined, percentage |-> Undefined, shares |-> n]

\* 0.04 and 100.00 among three, 0.58 and 1.00 between two, the last paid by
\* someone outside the split
HundredAmongThree == Tx("A", 100000, <<"A", "B", "C">>, "equal", <<>>)

EqualTransactions ==
    { Tx("A", 40, <<"A", "B", "C">>, "equal", <<>>),
      HundredAmongThree,
      Tx("B", 40, <<"A", "B", "C">>, "equal", <<>>),
      Tx("A", 580, <<"A", "B">>, "equal", <<>>),
      Tx("C", 1000, <<"A", "B">>, "equal", <<>>) }

FixedTransactions ==
    { Tx("A", 1000, <<"B", "C">>, "fixed", <<FixedDetail("B", 490), FixedDetail("C", 500)>>),
      Tx("A", 1000, <<"B", "C">>, "fixed", <<FixedDetail("C", 500), FixedDetail("B", 500)>>),
      Tx("A", 1000, <<"B", "C">>, "fixed", <<FixedDetail("B", 300), FixedDetail("C", Undefined)>>),
      Tx("A", 1000, <<"B", "C">>, "fixed", <<FixedDetail("B", 335), FixedDetail("C", 665)>>),
      Tx("A", 1000, <<"B">>, "fixed", <<FixedDetail("C", 1000)>>) }

PercentageTransactions ==
    { Tx("B", 1000, <<"A", "B", "C">>, "percentage",
         <<PercentDetail("A", 33), PercentDetail("B", 33), PercentDetail("C", 33)>>) }

ShareTransactions ==
    { Tx("C", 1000, <<"A", "B">>, "shares", <<ShareDetail("A", 1), ShareDetail("B", 2)>>),
      Tx("C", 1000, <<"A", "B">>, "shares", <<ShareDetail("A", 0), ShareDetail("B", 0)>>) }

Transactions ==
    EqualTransactions \cup FixedTransactions \cup PercentageTransactions \cup ShareTransactions

\* transactions for validateSplit alone: fixed amounts that miss 1.00 by
\* exactly 0.02 and by 0.03, percentages of an amount with half a cent and of
\* one paid from outside the split, percentages that add up to 120, a detail
\* without a percentage, and 0.02 at 30, 30, 30 and 10 percent
SplitCases ==
    { Tx("A", 1000, <<"B", "C">>, "fixed", <<FixedDetail("B", 480), FixedDetail("C", 500)>>),
      Tx("A", 1000, <<"B", "C">>, "fixed", <<FixedDetail("B", 510), FixedDetail("C", 510)>>),
      Tx("A", 1000, <<"B", "C">>, "fixed", <<FixedDetail("B", 470), FixedDetail("C", 500)>>),
      Tx("A", 335, <<"A", "B">>, "percentage",
         <<PercentDetail("A", 50), PercentDetail("B", 50)>>),
      Tx("C", 1000, <<"A", "B">>, "percentage",
         <<PercentDetail("A", 50), PercentDetail("B", 50)>>),
      Tx("A", 1000, <<"A", "B">>, "percentage",
         <<PercentDetail("A", 60), PercentDetail("B", 60)>>),
      Tx("A", 1000, <<"A", "B">>, "percentage",
         <<PercentDetail("A", 30), FixedDetail("B", 700)>>),
      Tx("A", 20, <<"A", "B", "C", "D">>, "percentage",
         <<PercentDetail("A", 30), PercentDetail("B", 30), PercentDetail("C", 30),
           PercentDetail("D", 10)>>) }

KnownLists == {<<"C", "B", "A">>, <<"B">>}

\* balance lists handed to the optimizer directly
BalanceOrder == <<"A", "B", "C", "D", "E">>

BalanceAmounts == {0 - 350, 0 - 100, 0 - 10, 0, 5, 10, 110, 360}

\* whole balance lists: the large imbalance {A: 200, B: -150, C: -50}, two
\* creditors of whom the larger is left with less than the other after the
\* first settlement, and a credit and a debt of 0.016
ScenarioAmounts ==
    { <<200000, 0 - 150000, 0 - 50000>>, <<1000, 900, 0 - 950, 0 - 950>>,
      <<16, 0 - 16>> }

\* a balance list and a settlement list a caller proposes for it
Entry(p, v) == [participant |-> p, amount |-> Num(v)]

Pay(from, to, v) == [from |-> from, to |-> to, amount |-> Num(v)]

\* 50 / -50 settled in full and settled short, a creditor left with one cent,
\* and a payer the balance list does not name
Proposals ==
    { [balances |-> <<Entry("A", 50000), Entry("B", 0 - 50000)>>,
       settlements |-> <<Pay("B", "A", 50000)>>],
      [balances |-> <<Entry("A", 50000), Entry("B", 0 - 50000)>>,
       settlements |-> <<Pay("B", "A", 40000)>>],
      [balances |-> <<Entry("A", 360), Entry("B", 0 - 350)>>,
       settlements |-> <<Pay("B", "A", 350)>>],
      [balances |-> <<Entry("A", 50000), Entry("B", 0 - 50000)>>,
       settlements |-> <<Pay("C", "A", 50000)>>],
      [balances |-> <<Entry("A", 20), Entry("B", 0 - 10)>>,
       settlements |-> <<Pay("C", "A", 10), Pay("B", "C", 10)>>] }

(***************************************************************************)
(* State                                                                   *)
(***************************************************************************)
VARIABLES
    transactions,     \* the transaction list of the request
    allParticipants,  \* the optional participant list of the request
    pc,               \* "input", "given", "balances", "walking", "optimized",
                      \* "validated", "proposed", "judged", "settled",
                      \* "submitted", "checked"
    origin,           \* who made the balance list: "aggregator" or "caller"
    splitAmounts,     \* the splitAmounts calculateBalances computed, per transaction
    balances,         \* the balance list
    walk,             \* creditors, debtors, cursors and settlements of the matching walk,
                      \* and the number of times the loop body was entered
    settlements,      \* the settlement list
    valid,            \* the value of validateSettlements
    errors,           \* the fields of the errors validateSplit returned
    result,           \* the SettlementResult
    store,            \* the state of useTransactionStore
    calls,            \* the calculateSettlement calls made on the store, in order
    group,            \* the state of useParticipantStore
    lastCall          \* the latest call made on the participant store

vars == <<transactions, allParticipants, pc, origin, splitAmounts, balances, walk,
          settlements, valid, errors, result, store, calls, group, lastCall>>

\* the variables of lib/split.ts and lib/settlement.ts, and those of the stores
library == <<transactions, allParticipants, pc, origin, splitAmounts, balances, walk,
             settlements, valid, errors, result>>

stores == <<store, calls, group, lastCall>>

\* null, and a value that is not null
Null == <<>>

Some(x) == <<x>>

\* create<TransactionState>: the initial state of the transaction store
InitialStore ==
    [transactions |-> <<>>, settlementResult |-> Null, isLoading |-> FALSE,
     error |-> Null, allParticipants |-> <<>>]

\* create<ParticipantState>: the initial state of the participant store
InitialGroup == [participants |-> <<>>, isGroupSetupComplete |-> FALSE]

\* a call of an action of the participant store with its argument
Call(name, raw, index) == [name |-> name, raw |-> raw, index |-> index]

Init ==
    /\ transactions = <<>>
    /\ allParticipants = NotProvided
    /\ splitAmounts = <<>>
    /\ settlements = <<>>
    /\ valid = FALSE
    /\ errors = <<>>
    /\ result = EmptyResult
    /\ pc = "input"
    /\ origin = "aggregator"
    /\ balances = <<>>
    /\ walk = StartWalk(<<>>)
    /\ store = InitialStore
    /\ calls = <<>>
    /\ group = InitialGroup
    /\ lastCall = Call("create", <<>>, 0)

AddTransaction(t) ==
    /\ pc = "input"
    /\ Len(transactions) < MaxTx
    /\ transactions' = Append(transactions, t)
    /\ UNCHANGED <<allParticipants, pc, origin, splitAmounts, balances, settlements, valid, result, walk, errors, stores>>

SetAllParticipants(list) ==
    /\ pc = "input"
    /\ ~allParticipants.defined
    /\ allParticipants' = Provided(list)
    /\ UNCHANGED <<transactions, pc, origin, splitAmounts, balances, settlements, valid, result, walk, errors, stores>>

\* a caller writes the next entry of a balance list of its own
GiveBalance(amount) ==
    /\ \/ pc = "input" /\ transactions = <<>> /\ ~allParticipants.defined
       \/ pc = "given"
    /\ Len(balances) < MaxBalances
    /\ balances' = Append(balances, [participant |-> BalanceOrder[Len(balances) + 1],
                                     amount |-> Num(amount)])
    /\ pc' = "given"
    /\ origin' = "caller"
    /\ UNCHANGED <<transactions, allParticipants, splitAmounts, settlements, valid, result, walk, errors, stores>>

\* a caller writes a whole balance list of its own
GiveScenario(amounts) ==
    /\ pc = "input" /\ transactions = <<>> /\ ~allParticipants.defined
    /\ Len(amounts) <= MaxBalances
    /\ balances' = [k \in 1..Len(amounts) |->
                        [participant |-> BalanceOrder[k], amount |-> Num(amounts[k])]]
    /\ pc' = "given"
    /\ origin' = "caller"
    /\ UNCHANGED <<transactions, allParticipants, splitAmounts, settlements, valid, result, walk, errors, stores>>

\* a caller hands validateSplit one transaction
SubmitTransaction(t) ==
    /\ pc = "input" /\ transactions = <<>> /\ ~allParticipants.defined
    /\ transactions' = <<t>>
    /\ pc' = "submitted"
    /\ UNCHANGED <<allParticipants, origin, splitAmounts, balances, walk, settlements, valid,
                   errors, result, stores>>

\* validateSplit: the split is computed again and the errors are returned
ValidateSplit ==
    /\ pc = "submitted"
    /\ splitAmounts' = <<calculateSplitAmounts(transactions[1])>>
    /\ errors' = validateSplit(transactions[1])
    /\ pc' = "checked"
    /\ UNCHANGED <<transactions, allParticipants, origin, balances, walk, settlements, valid,
                   result, stores>>

CalculateBalances ==
    /\ pc = "input"
    /\ splitAmounts' = SplitAmountsOf(transactions)
    /\ balances' = calculateBalances(transactions, allParticipants)
    /\ pc' = "balances"
    /\ UNCHANGED <<transactions, allParticipants, origin, settlements, valid, result, walk, errors, stores>>

\* lines 100-148: the copy, the partition and the two sorts
EnterOptimizedSettlements ==
    /\ pc \in {"balances", "given"}
    /\ walk' = StartWalk(balances)
    /\ balances' = CallerList(balances, walk')
    /\ pc' = "walking"
    /\ UNCHANGED <<transactions, allParticipants, origin, splitAmounts, settlements, valid, result, errors, stores>>

\* lines 151-207: one iteration of the matching loop
WalkIteration ==
    /\ pc = "walking"
    /\ WalkRunning(walk)
    /\ walk' = WalkStep(walk)
    /\ balances' = CallerList(balances, walk')
    /\ UNCHANGED <<transactions, allParticipants, pc, origin, splitAmounts, settlements, valid, result, errors, stores>>

\* lines 209-214: the loop is over and the settlements are returned
CalculateOptimizedSettlements ==
    /\ pc = "walking"
    /\ ~WalkRunning(walk)
    /\ settlements' = walk.settlements
    /\ pc' = "optimized"
    /\ UNCHANGED <<transactions, allParticipants, origin, splitAmounts, balances, walk, valid, result, errors, stores>>

\* a caller hands validateSettlements a balance list and a settlement list
GiveProposal(proposal) ==
    /\ pc = "input" /\ transactions = <<>> /\ ~allParticipants.defined
    /\ balances' = proposal.balances
    /\ settlements' = proposal.settlements
    /\ pc' = "proposed"
    /\ origin' = "caller"
    /\ UNCHANGED <<transactions, allParticipants, splitAmounts, valid, result, walk, errors, stores>>

\* validateSettlements on the optimizer's list ("validated") or on a
\* caller's ("judged")
ValidateSettlements ==
    /\ pc \in {"optimized", "proposed"}
    /\ valid' = validateSettlements(balances, settlements)
    /\ pc' = IF pc = "proposed" THEN "judged" ELSE "validated"
    /\ UNCHANGED <<transactions, allParticipants, origin, splitAmounts, balances, settlements, result, walk, errors, stores>>

CalculateSettlement ==
    /\ pc = "input"
    /\ result' = calculateSettlement(transactions, allParticipants)
    /\ pc' = "settled"
    /\ UNCHANGED <<transactions, allParticipants, origin, splitAmounts, balances, settlements, valid, walk, errors, stores>>

Next ==
    \/ \E t \in Transactions : AddTransaction(t)
    \/ \E list \in KnownLists : SetAllParticipants(list)
    \/ \E amount \in BalanceAmounts : GiveBalance(amount)
    \/ \E amounts \in ScenarioAmounts : GiveScenario(amounts)
    \/ \E proposal \in Proposals : GiveProposal(proposal)
    \/ \E t \in Transactions \cup SplitCases : SubmitTransaction(t)
    \/ ValidateSplit
    \/ CalculateBalances
    \/ EnterOptimizedSettlements
    \/ WalkIteration
    \/ CalculateOptimizedSettlements
    \/ ValidateSettlements
    \/ CalculateSettlement

Spec == Init /\ [][Next]_vars


(***************************************************************************)
(* store/transactionStore.ts and app/api/settle/route.ts                   *)
(***************************************************************************)
MaxCalls == 2

\* the transaction lists the components put into the store
StoreLists ==
    { <<>>,
      <<Tx("A", 40, <<"A", "B", "C">>, "equal", <<>>)>>,
      <<Tx("A", 40, <<"A", "B", "C">>, "equal", <<>>),
        Tx("C", 1000, <<"A", "B">>, "equal", <<>>)>> }

\* what a fetch of /api/settle can end with besides a 200: the fetch itself
\* rejecting, the route's 400 (a body without message) and its 500
Failures ==
    { [kind |-> "rejected", message |-> Some("Failed to fetch")],
      [kind |-> "status", message |-> Null],
      [kind |-> "status", message |-> Some("Unknown error")] }

Pending == [kind |-> "pending", message |-> Null]

Ok == [kind |-> "ok", message |-> Null]

Skipped == [kind |-> "skipped", message |-> Null]

\* the body of the request: allParticipants.length > 0 ? allParticipants : undefined
RequestBody(s) ==
    [transactions |-> s.transactions,
     allParticipants |-> IF Len(s.allParticipants) > 0 THEN Provided(s.allParticipants)
                         ELSE NotProvided]

\* POST of app/api/settle/route.ts for a body that passes the schema: the
\* SettlementResult with the audit trail (the timestamp is left out)
settleRoute(body) ==
    LET participants == IF body.allParticipants.defined THEN body.allParticipants.list
                        ELSE Distinct(FlatMapNames(body.transactions))
    IN  [result |-> calculateSettlement(body.transactions, Provided(participants)),
         audit |-> [transactionCount |-> Len(body.transactions),
                    participantCount |-> Len(participants),
                    participants |-> participants]]

\* error.message || 'Failed to calculate settlement' of a response that is not
\* ok, err.message of a rejected fetch
errorMessage(outcome) ==
    IF outcome.kind = "rejected" THEN outcome.message[1]
    ELSE IF outcome.message # Null THEN outcome.message[1]
    ELSE "Failed to calculate settlement"

\* set({ settlementResult: null }) of a call with no transactions
withoutTransactions(s) == [s EXCEPT !.settlementResult = Null]

\* set({ isLoading: true, error: null })
beforeRequest(s) == [s EXCEPT !.isLoading = TRUE, !.error = Null]

\* set({ settlementResult: result, isLoading: false })
onResponse(s, response) ==
    [s EXCEPT !.settlementResult = Some(response), !.isLoading = FALSE]

\* set({ error: errorMessage, isLoading: false }) with the result cleared too
onFailureClearingResult(s, message) ==
    [s EXCEPT !.error = Some(message), !.isLoading = FALSE, !.settlementResult = Null]

\* set({ error: errorMessage, isLoading: false })
onFailure(s, message) == [s EXCEPT !.error = Some(message), !.isLoading = FALSE]

\* some call's fetch is still in flight
InFlight(log) == \E k \in DOMAIN log : log[k].outcome = Pending

\* setTransactions(transactions)
SetTransactions(list) ==
    /\ store' = [store EXCEPT !.transactions = list]
    /\ UNCHANGED <<calls, group, lastCall, library>>

\* calculateSettlement() up to its await: the return of a call with no
\* transactions, or the request going out with the transactions of get()
StoreCalculateSettlement ==
    /\ Len(calls) < MaxCalls
    /\ IF Len(store.transactions) = 0
       THEN /\ store' = withoutTransactions(store)
            /\ calls' = Append(calls, [body |-> RequestBody(store), overlaps |-> FALSE,
                                       outcome |-> Skipped])
       ELSE /\ store' = beforeRequest(store)
            /\ calls' = Append(calls, [body |-> RequestBody(store),
                                       overlaps |-> InFlight(calls),
                                       outcome |-> Pending])
    /\ UNCHANGED <<group, lastCall, library>>

\* the rest of call k after a response that is ok: nothing ties the response
\* to the latest call, the responses arrive in any order
FetchResolves(k) ==
    /\ calls[k].outcome = Pending
    /\ store' = onResponse(store, settleRoute(calls[k].body))
    /\ calls' = [calls EXCEPT ![k].outcome = Ok]
    /\ UNCHANGED <<group, lastCall, library>>

\* the rest of call k in the catch block
FetchFails(k, outcome) ==
    /\ calls[k].outcome = Pending
    /\ store' = onFailure(store, errorMessage(outcome))
    /\ calls' = [calls EXCEPT ![k].outcome = outcome]
    /\ UNCHANGED <<group, lastCall, library>>

StoreNext ==
    \/ \E list \in StoreLists : SetTransactions(list)
    \/ StoreCalculateSettlement
    \/ \E k \in DOMAIN calls : FetchResolves(k)
    \/ \E k \in DOMAIN calls, outcome \in Failures : FetchFails(k, outcome)

StoreSpec == Init /\ [][StoreNext]_vars

(***************************************************************************)
(* store/participantStore.ts                                               *)
(***************************************************************************)
\* the characters String.prototype.trim strips, of those the names are typed with
WhiteSpace == {" ", "\t"}

\* what the group setup form hands to addParticipant: names as typed, a
\* sequence of characters each
RawNames ==
    { <<>>, <<" ">>, <<" ", "\t">>,
      <<"A">>, <<" ", "A">>, <<"A", " ">>, <<"\t", "A", " ">>,
      <<"B">>, <<"B", "\t">>,
      <<"A", " ", "B">>, <<" ", "A", " ", "B", " ">>,
      <<"a">>, <<"C">>, <<" ", " ", "C">> }

\* the indices the participant list hands to removeParticipant, and two that
\* no list has
Indices == -1 .. 5

RECURSIVE trimStart(_)
trimStart(s) ==
    IF Len(s) > 0 /\ s[1] \in WhiteSpace THEN trimStart(Tail(s)) ELSE s

RECURSIVE trimEnd(_)
trimEnd(s) ==
    IF Len(s) > 0 /\ s[Len(s)] \in WhiteSpace THEN trimEnd(SubSeq(s, 1, Len(s) - 1)) ELSE s

\* name.trim()
trim(s) == trimEnd(trimStart(s))

\* participants.filter((_, i) => i !== index), i counting from 0
RECURSIVE FilterIndex(_, _, _)
FilterIndex(list, i, index) ==
    IF Len(list) = 0 THEN <<>>
    ELSE (IF i # index THEN <<list[1]>> ELSE <<>>) \o FilterIndex(Tail(list), i + 1, index)

\* addParticipant(name) appending whatever trims to a name
addParticipantAgain(s, name) ==
    LET trimmed == trim(name)
    IN  IF trimmed # <<>>
        THEN [s EXCEPT !.participants = Append(@, trimmed)]
        ELSE s

\* addParticipant(name)
addParticipant(s, name) ==
    LET trimmed == trim(name)
    IN  IF trimmed # <<>> /\ trimmed \notin Range(s.participants)
        THEN [s EXCEPT !.participants = Append(@, trimmed)]
        ELSE s

\* removeParticipant(index)
removeParticipant(s, index) ==
    [s EXCEPT !.participants = FilterIndex(@, 0, index)]

\* resetGroup()
resetGroup(s) == [s EXCEPT !.participants = <<>>, !.isGroupSetupComplete = FALSE]

AddParticipant(name) ==
    /\ group' = addParticipant(group, name)
    /\ lastCall' = Call("addParticipant", name, 0)
    /\ UNCHANGED <<store, calls, library>>

RemoveParticipant(index) ==
    /\ group' = removeParticipant(group, index)
    /\ lastCall' = Call("removeParticipant", <<>>, index)
    /\ UNCHANGED <<store, calls, library>>

CompleteGroupSetup ==
    /\ group' = [group EXCEPT !.isGroupSetupComplete = TRUE]
    /\ lastCall' = Call("completeGroupSetup", <<>>, 0)
    /\ UNCHANGED <<store, calls, library>>

ResetGroup ==
    /\ group' = resetGroup(group)
    /\ lastCall' = Call("resetGroup", <<>>, 0)
    /\ UNCHANGED <<store, calls, library>>

GroupNext ==
    \/ \E name \in RawNames : AddParticipant(name)
    \/ \E index \in Indices : RemoveParticipant(index)
    \/ CompleteGroupSetup
    \/ ResetGroup

GroupSpec == Init /\ [][GroupNext]_vars
(***************************************************************************)
(* Properties                                                              *)
(*                                                                         *)
(* Amounts are compared as decimals (the v of a number, in mills) where a  *)
(* property speaks of sums and equality of money, and as binary64 values   *)
(* where it speaks of the order the code itself computes.                  *)
(***************************************************************************)
Magnitude(n) == IF n < 0 THEN 0 - n ELSE n

\* the balance list is the one calculateBalances returned for the request
Aggregated == pc = "balances" /\ origin = "aggregator"

TxIndices == 1..Len(transactions)

\* the amount and the fixed amounts of the split details are whole cents
WholeCents(t) ==
    /\ t.amount % Cent = 0
    /\ \A i \in 1..Len(t.splitDetails) :
           t.splitDetails[i].amount = Undefined \/ t.splitDetails[i].amount % Cent = 0

\* the decimal sum, in mills, of the amounts of a balance list
RECURSIVE SumOfAmounts(_)
SumOfAmounts(bs) ==
    IF Len(bs) = 0 THEN 0 ELSE bs[1].amount.v + SumOfAmounts(Tail(bs))

\* the decimal sum, in mills, of the values of a split map
RECURSIVE SumOfShares(_)
SumOfShares(shares) ==
    IF Len(shares) = 0 THEN 0 ELSE shares[1].value.v + SumOfShares(Tail(shares))

NonZero(bs) == {i \in 1..Len(bs) : bs[i].amount # Zero}

Positive(bs) == {i \in 1..Len(bs) : Greater(bs[i].amount, Zero)}

Negative(bs) == {i \in 1..Len(bs) : Less(bs[i].amount, Zero)}

BalanceNames(bs) == {bs[i].participant : i \in 1..Len(bs)}

\* C1: for every list of whole-cent transactions and the balance list that
\* calculateBalances produces from it, validateSettlements on that list and
\* the settlements calculateOptimizedSettlements returns for it is true.
\* Stated for the transactions validateSplit accepts without an error, all
\* of which the claim covers.
C1_SettlementCorrectness ==
    (/\ pc = "validated"
     /\ origin = "aggregator"
     /\ \A k \in TxIndices : WholeCents(transactions[k]) /\ validateSplit(transactions[k]) = <<>>)
    => valid

\* C2: the optimizer returns at most max(0, n - 1) settlements, n the number
\* of balances with a non-zero amount; one creditor with k debtors gets at
\* most k settlements.
C2_MinimalityBound ==
    pc \in {"optimized", "validated"} =>
        /\ Len(settlements) <= (IF Cardinality(NonZero(balances)) = 0 THEN 0
                                ELSE Cardinality(NonZero(balances)) - 1)
        /\ Cardinality(Positive(balances)) = 1 =>
               Len(settlements) <= Cardinality(Negative(balances))

\* three settlements for one creditor and three debtors
C2_Witness ==
    /\ pc = "optimized"
    /\ Cardinality(Positive(balances)) = 1
    /\ Cardinality(NonZero(balances)) = 4
    /\ Len(settlements) = 3

\* C3 as claimed: for any transaction list, whatever its split details, the
\* balances calculateBalances returns sum to at most 0.02 times the number of
\* transactions in absolute value.
C3_ConservationAnyDetails ==
    Aggregated => Magnitude(SumOfAmounts(balances)) <= 2 * Cent * Len(transactions)

\* C3 as amended: for a list of whole-cent transactions each of which passes
\* the sum check of validateSplit, the balances calculateBalances returns sum,
\* to the cent, to at most 0.02 times the number of transactions in absolute
\* value.
C3_Conservation ==
    (/\ Aggregated
     /\ \A k \in TxIndices :
            /\ WholeCents(transactions[k])
            /\ "splitDetails" \notin Range(validateSplit(transactions[k])))
    => Magnitude(SumOfAmounts(balances)) <= 2 * Cent * Len(transactions)

\* two transactions that pass the sum check, and balances that do not sum to zero
C3_Witness ==
    /\ Aggregated
    /\ Len(transactions) = 2
    /\ \A k \in TxIndices :
           /\ WholeCents(transactions[k])
           /\ "splitDetails" \notin Range(validateSplit(transactions[k]))
    /\ SumOfAmounts(balances) # 0

\* the split the claim describes: floor(amount / n) to the cent for all but
\* the first participant, the rest of the amount for the first
FlooredEqualSplit(t) ==
    LET n == Len(t.participants)
        cents == t.amount \div Cent
        floored == cents \div n
    IN  [i \in 1..n |->
            [key |-> t.participants[i],
             value |-> Num(Cent * (IF i = 1 THEN floored + (cents - n * floored)
                                   ELSE floored))]]

\* C4: for an equal split of a positive whole-cent amount among n distinct
\* participants, calculateSplitAmounts gives floor(amount / n) to everyone but
\* the first, the floor plus the whole leftover to the first, and the shares
\* sum exactly to the amount.
C4_EqualSplitExactness ==
    Aggregated =>
        \A k \in TxIndices :
            transactions[k].splitType = "equal" =>
                /\ splitAmounts[k] = FlooredEqualSplit(transactions[k])
                /\ SumOfShares(splitAmounts[k]) = transactions[k].amount

\* what p paid and what p owes over the transactions of the request, in mills
RECURSIVE PaidBy(_, _)
PaidBy(p, txs) ==
    IF Len(txs) = 0 THEN 0
    ELSE (IF txs[1].paidBy = p THEN txs[1].amount ELSE 0) + PaidBy(p, Tail(txs))

RECURSIVE OwedBy(_, _)
OwedBy(p, shareMaps) ==
    IF Len(shareMaps) = 0 THEN 0
    ELSE MapGetOr0(shareMaps[1], p).v + OwedBy(p, Tail(shareMaps))

\* a payer outside the split of the only transaction holds a credit of the amount
PayerOutsideCredited ==
    (/\ Len(transactions) = 1
     /\ ~MapHas(splitAmounts[1], transactions[1].paidBy))
    => \E i \in 1..Len(balances) :
           /\ balances[i].participant = transactions[1].paidBy
           /\ balances[i].amount = Num(transactions[1].amount)

\* C5 as claimed: every balance calculateBalances returns equals what the
\* participant paid less the shares calculateSplitAmounts makes them owe, and
\* a payer who owes no share of a transaction is credited its full amount.
C5_BalanceIsPaidLessOwed ==
    Aggregated =>
        /\ \A i \in 1..Len(balances) :
               balances[i].amount.v =
                   PaidBy(balances[i].participant, transactions)
                   - OwedBy(balances[i].participant, splitAmounts)
        /\ PayerOutsideCredited

\* C5 as amended: every balance calculateBalances returns is a whole number
\* of cents within half a cent of what the participant paid less the shares
\* they owe (that difference rounded to the cent), and a payer who owes no
\* share of a transaction is credited its full amount.
C5_BalanceFormula ==
    Aggregated =>
        /\ \A i \in 1..Len(balances) :
               /\ balances[i].amount.v % Cent = 0
               /\ 2 * Magnitude(balances[i].amount.v
                                - (PaidBy(balances[i].participant, transactions)
                                   - OwedBy(balances[i].participant, splitAmounts)))
                      <= Cent
        /\ PayerOutsideCredited

\* one transaction whose payer owes no share, with a balance that was rounded
C5_Witness ==
    /\ Aggregated
    /\ Len(transactions) = 1
    /\ ~MapHas(splitAmounts[1], transactions[1].paidBy)
    /\ \E i \in 1..Len(balances) :
           balances[i].amount.v #
               PaidBy(balances[i].participant, transactions)
               - OwedBy(balances[i].participant, splitAmounts)

\* the names a transaction refers to
Referenced(t) ==
    {t.paidBy} \cup Range(t.participants)
        \cup {t.splitDetails[i].participant : i \in 1..Len(t.splitDetails)}

ReferencedNames == UNION {Referenced(transactions[k]) : k \in TxIndices}

\* C6: with a knownParticipants list calculateBalances returns an entry for
\* every name of the list, at exactly 0 for a name no transaction refers to;
\* for no transactions it returns the known participants, all at 0, and the
\* empty list when no list is supplied.
C6_KnownParticipantsListed ==
    Aggregated =>
        /\ allParticipants.defined =>
               \A n \in Range(allParticipants.list) :
                   /\ \E i \in 1..Len(balances) : balances[i].participant = n
                   /\ n \notin ReferencedNames =>
                          \A i \in 1..Len(balances) :
                              balances[i].participant = n => balances[i].amount = Zero
        /\ transactions = <<>> =>
               balances = [i \in 1..Len(allParticipants.list) |->
                              [participant |-> allParticipants.list[i], amount |-> Zero]]

\* a known participant that no transaction of a non-empty list refers to
C6_Witness ==
    /\ Aggregated
    /\ allParticipants.defined
    /\ transactions # <<>>
    /\ \E n \in Range(allParticipants.list) :
           /\ n \notin ReferencedNames
           /\ \E i \in 1..Len(balances) :
                  balances[i].participant = n /\ balances[i].amount = Zero

\* C7: calculateSettlement on no transactions returns empty balances, empty
\* settlements and a summary of zeros, with or without a participant list.
C7_EmptyTransactions ==
    (pc = "settled" /\ transactions = <<>>) =>
        /\ result.balances = <<>>
        /\ result.settlements = <<>>
        /\ result.totalTransactions = 0
        /\ result.totalAmount = Zero
        /\ result.optimizedTransactions = 0

\* no transactions, and a participant list was supplied
C7_Witness ==
    /\ pc = "settled"
    /\ transactions = <<>>
    /\ allParticipants.defined
    /\ result.balances = <<>>

\* the sum of the transaction amounts, in mills
RECURSIVE SumOfTransactionAmounts(_)
SumOfTransactionAmounts(txs) ==
    IF Len(txs) = 0 THEN 0 ELSE txs[1].amount + SumOfTransactionAmounts(Tail(txs))

\* the summary fields and the settlements of a result, as C8 states them
SummaryOfResult ==
    /\ result.totalTransactions = Len(transactions)
    /\ result.totalAmount = Num(SumOfTransactionAmounts(transactions))
    /\ result.optimizedTransactions = Len(result.settlements)
    /\ result.settlements = calculateOptimizedSettlements(result.balances)

NonZeroEntries(bs) == {bs[i] : i \in NonZero(bs)}

DetailsNameParticipants ==
    \A k \in TxIndices :
        \A i \in 1..Len(transactions[k].splitDetails) :
            transactions[k].splitDetails[i].participant \in Range(transactions[k].participants)

PayersAndParticipants ==
    UNION {{transactions[k].paidBy} \cup Range(transactions[k].participants) : k \in TxIndices}

\* C9: without a participant list, and with split details that name only
\* participants, the balances of calculateSettlement for a non-empty list have
\* exactly one entry for each payer and each participant, and no other.
C9_OneBalancePerParticipant ==
    (/\ pc = "settled"
     /\ transactions # <<>>
     /\ ~allParticipants.defined
     /\ DetailsNameParticipants)
    => /\ BalanceNames(result.balances) = PayersAndParticipants
       /\ Len(result.balances) = Cardinality(PayersAndParticipants)

\* a participant who owes nothing is listed at 0
C9_Witness ==
    /\ pc = "settled"
    /\ transactions # <<>>
    /\ ~allParticipants.defined
    /\ DetailsNameParticipants
    /\ \E i \in 1..Len(result.balances) : result.balances[i].amount = Zero
    /\ Len(result.balances) = Cardinality(PayersAndParticipants)

\* C10: the list calculateBalances returns is in non-increasing order of
\* amount: creditors, then zero balances, then debtors.
C10_SortedDescending ==
    Aggregated =>
        \A i, j \in 1..Len(balances) :
            i < j => LessEq(balances[j].amount, balances[i].amount)

\* a creditor, a zero balance and a debtor, with a participant list that
\* starts with the debtor
C10_Witness ==
    /\ Aggregated
    /\ allParticipants.defined
    /\ \E i, j, k \in 1..Len(balances) :
           /\ i < j /\ j < k
           /\ Greater(balances[i].amount, Zero)
           /\ balances[j].amount = Zero
           /\ Less(balances[k].amount, Zero)
           /\ allParticipants.list[1] = balances[k].participant

\* the amount the balance list bs gives participant p
BalanceOf(bs, p) == bs[CHOOSE k \in 1..Len(bs) : bs[k].participant = p].amount

\* the optimizer has partitioned the balance list
Partitioned == pc \in {"walking", "optimized", "validated"}

\* the optimizer has returned
Returned == pc \in {"optimized", "validated"}

EntryNames(entries) == {entries[k].participant : k \in 1..Len(entries)}

SettlementNames(ss) == {ss[k].from : k \in 1..Len(ss)} \cup {ss[k].to : k \in 1..Len(ss)}

\* C11: a participant whose balance has magnitude at most 0.01 (exactly 0.01
\* and sub-cent values such as 0.005 included) is in neither the creditor nor
\* the debtor list and is not the 'from' or 'to' of any settlement that
\* calculateOptimizedSettlements emits or returns.
C11_NearZeroExcluded ==
    Partitioned =>
        \A k \in 1..Len(balances) :
            LessEq(Abs(balances[k].amount), Num(Cent)) =>
                /\ balances[k].participant \notin EntryNames(walk.creditors)
                /\ balances[k].participant \notin EntryNames(walk.debtors)
                /\ balances[k].participant \notin SettlementNames(walk.settlements)
                /\ Returned => balances[k].participant \notin SettlementNames(settlements)

\* balances of exactly 0.01 and of 0.005 next to a creditor and a debtor that settle
C11_Witness ==
    /\ pc = "optimized"
    /\ settlements # <<>>
    /\ \E k \in 1..Len(balances) : balances[k].amount = Num(Cent)
    /\ \E k \in 1..Len(balances) : balances[k].amount = Num(5)

\* C12: every settlement calculateOptimizedSettlements returns goes from a
\* participant whose input balance is below -0.01 to a different participant
\* whose input balance is above 0.01, and its amount is strictly greater
\* than 0.01.
C12_DebtorToCreditor ==
    Returned =>
        \A k \in 1..Len(settlements) :
            /\ Less(BalanceOf(balances, settlements[k].from), Num(0 - Cent))
            /\ Greater(BalanceOf(balances, settlements[k].to), Num(Cent))
            /\ settlements[k].from # settlements[k].to
            /\ Greater(settlements[k].amount, Num(Cent))

\* the entries of a creditor or debtor list that are not settled yet
Unsettled(entries) == {k \in 1..Len(entries) : Greater(entries[k].amount, Num(Cent))}

\* the settlement the walk has just emitted pairs, of the creditors and of the
\* debtors not settled before the step, one whose original amount none of the
\* others exceeds, for the smaller of the two remaining amounts, to the cent
PairsLargestUnsettled(s, creditors, debtors) ==
    \E c \in Unsettled(creditors), d \in Unsettled(debtors) :
        /\ s.to = creditors[c].participant
        /\ s.from = debtors[d].participant
        /\ \A other \in Unsettled(creditors) :
               LessEq(BalanceOf(balances, creditors[other].participant),
                      BalanceOf(balances, s.to))
        /\ \A other \in Unsettled(debtors) :
               LessEq(Abs(BalanceOf(balances, debtors[other].participant)),
                      Abs(BalanceOf(balances, s.from)))
        /\ 2 * Magnitude(s.amount.v - Min(creditors[c].amount, debtors[d].amount).v) <= Cent

GreedyStep ==
    (pc = "walking" /\ Len(walk'.settlements) > Len(walk.settlements)) =>
        /\ Len(walk'.settlements) = Len(walk.settlements) + 1
        /\ PairsLargestUnsettled(walk'.settlements[Len(walk'.settlements)],
                                 walk.creditors, walk.debtors)

\* the returned list: the first settlement goes from the largest debtor to the
\* largest creditor, and the 'to' and the 'from' participants follow in
\* non-increasing order of original credit and of original debt
GreedyOrder ==
    Returned =>
        /\ settlements # <<>> =>
               \A k \in 1..Len(balances) :
                   /\ LessEq(balances[k].amount, BalanceOf(balances, settlements[1].to))
                   /\ LessEq(BalanceOf(balances, settlements[1].from), balances[k].amount)
        /\ \A m, n \in 1..Len(settlements) :
               m < n =>
                   /\ LessEq(BalanceOf(balances, settlements[n].to),
                             BalanceOf(balances, settlements[m].to))
                   /\ LessEq(BalanceOf(balances, settlements[m].from),
                             BalanceOf(balances, settlements[n].from))
        /\ balances = <<[participant |-> "A", amount |-> Num(200000)],
                        [participant |-> "B", amount |-> Num(0 - 150000)],
                        [participant |-> "C", amount |-> Num(0 - 50000)]>>
               => settlements = <<[from |-> "B", to |-> "A", amount |-> Num(150000)],
                                  [from |-> "C", to |-> "A", amount |-> Num(50000)]>>

\* C13: greedy largest-first order.  Every settlement the walk emits pairs the
\* largest creditor not yet settled with the largest debtor not yet settled,
\* largest by original amount, for the smaller of their remaining amounts; so
\* the first settlement goes from the largest debtor to the largest creditor,
\* the 'to' participants of the returned list are in non-increasing order of
\* original credit and the 'from' participants in non-increasing order of
\* original debt, and {A: 200, B: -150, C: -50} gives [B to A 150, C to A 50].
C13_GreedyLargestFirst == [][GreedyStep]_vars /\ []GreedyOrder

\* the walk has emitted a settlement and goes on with a creditor who is left
\* with less than the next creditor in line
C13_Witness ==
    /\ pc = "walking"
    /\ WalkRunning(walk)
    /\ walk.settlements # <<>>
    /\ walk.i < Len(walk.creditors)
    /\ Less(walk.creditors[walk.i].amount, walk.creditors[walk.i + 1].amount)
    /\ walk.creditors[walk.i].amount.v > 2 * Cent

\* validateSettlements has returned
Validated == pc \in {"validated", "judged"}

\* what the settlements ss add to participant p, in mills
RECURSIVE NetOfSettlements(_, _)
NetOfSettlements(p, ss) ==
    IF Len(ss) = 0 THEN 0
    ELSE (IF ss[1].from = p THEN ss[1].amount.v ELSE 0)
         - (IF ss[1].to = p THEN ss[1].amount.v ELSE 0)
         + NetOfSettlements(p, Tail(ss))

\* the amount of participant p after the settlements, in mills: the given
\* balance, or 0 for a participant only a settlement names, plus what p pays,
\* less what p receives
ResultingAmount(p) ==
    (IF p \in BalanceNames(balances) THEN BalanceOf(balances, p).v ELSE 0)
    + NetOfSettlements(p, settlements)

\* C14: validateSettlements returns true if and only if every amount that
\* results from the given balances by adding each settlement's amount to its
\* 'from' and subtracting it from its 'to' has magnitude at most 0.01.
C14_ValidatesExactlySettled ==
    Validated =>
        (valid <=> \A p \in BalanceNames(balances) \cup SettlementNames(settlements) :
                       Magnitude(ResultingAmount(p)) <= Cent)

\* the request is the one transaction of Scenario 2 and calculateBalances has
\* returned
AfterScenario2 ==
    /\ origin = "aggregator"
    /\ pc \in {"balances", "walking", "optimized", "validated"}
    /\ transactions = <<HundredAmongThree>>

\* Scenario 2 with alice for the balance of Alice, in mills
Scenario2Yields(alice) ==
    AfterScenario2 =>
        /\ Len(balances) = 3
        /\ BalanceOf(balances, "A").v = alice
        /\ BalanceOf(balances, "B").v = 0 - 33330
        /\ BalanceOf(balances, "C").v = 0 - 33330
        /\ Returned =>
               /\ Len(settlements) = 2
               /\ \A k \in 1..Len(settlements) : settlements[k].to = "A"

\* C15 as claimed: when Alice pays 100.00 split equally among Alice, Bob and
\* Charlie, calculateBalances yields Alice +66.67, Bob -33.33 and Charlie
\* -33.33, and the optimizer returns exactly two settlements, both to Alice.
C15_Scenario2AliceRoundedUp == Scenario2Yields(66670)

\* C15 as amended: the balances are Alice +66.66, Bob -33.33 and Charlie
\* -33.33, Alice owing the share 33.34 that carries the leftover cent, and
\* the optimizer returns exactly two settlements, both to Alice.
C15_Scenario2 == Scenario2Yields(66660)

\* the two settlements of Scenario 2
C15_Witness ==
    /\ AfterScenario2
    /\ pc = "optimized"
    /\ Len(settlements) = 2
    /\ settlements[1].amount = Num(33330)

\* the splits of the transactions have been computed
SplitComputed == Aggregated \/ pc = "checked"

\* a percentage split whose non-empty details name distinct participants,
\* each with a percentage
PercentageDetailed(t) ==
    /\ t.splitType = "percentage"
    /\ t.splitDetails # <<>>
    /\ \A m, n \in 1..Len(t.splitDetails) :
           m # n => t.splitDetails[m].participant # t.splitDetails[n].participant
    /\ \A m \in 1..Len(t.splitDetails) : t.splitDetails[m].percentage # Undefined

\* the share map gives every detail but the last amount * percentage / 100
\* rounded to the cent and the last the amount less the sum of the others
PercentageShares(t, shares) ==
    LET n == Len(t.splitDetails)
    IN  /\ Len(shares) = n
        /\ \A m \in 1..n : shares[m].key = t.splitDetails[m].participant
        /\ \A m \in 1..(n - 1) :
               /\ shares[m].value.v % Cent = 0
               /\ 2 * Magnitude(100 * shares[m].value.v
                                - t.amount * t.splitDetails[m].percentage) <= 100 * Cent
        /\ shares[n].value.v = t.amount - SumOfShares(SubSeq(shares, 1, n - 1))
        /\ SumOfShares(shares) = t.amount

\* C16 as claimed: for a percentage transaction whose non-empty split details
\* name distinct participants each with a percentage, calculateSplitAmounts
\* gives every entry but the last amount * percentage / 100 rounded to the
\* cent and the last entry the amount less the sum of the others, so the
\* owed amounts sum exactly to the transaction amount.
C16_PercentageSplitAnyAmount ==
    SplitComputed =>
        \A k \in TxIndices :
            PercentageDetailed(transactions[k]) =>
                PercentageShares(transactions[k], splitAmounts[k])

\* C16 as amended: the same for a transaction whose amount is a whole number
\* of cents.
C16_PercentageSplit ==
    SplitComputed =>
        \A k \in TxIndices :
            (PercentageDetailed(transactions[k]) /\ transactions[k].amount % Cent = 0) =>
                PercentageShares(transactions[k], splitAmounts[k])

\* percentages of 33, 33 and 33: the last entry takes up the cent left over
C16_Witness ==
    /\ SplitComputed
    /\ \E k \in TxIndices :
           /\ PercentageDetailed(transactions[k])
           /\ transactions[k].amount % Cent = 0
           /\ Len(splitAmounts[k]) = 3
           /\ splitAmounts[k][3].value.v > splitAmounts[k][1].value.v

\* a share split whose share counts sum to zero
Degenerate(t) == t.splitType = "shares" /\ TotalShares(t.splitDetails) = 0

\* C17: when the share counts of a shares transaction sum to zero,
\* calculateSplitAmounts returns an empty mapping, and calculateBalances
\* credits the payer the full amount and debits nobody for the transaction:
\* every balance is what the participant paid less what the other
\* transactions make them owe, to the cent, and a request of such
\* transactions alone leaves the payers with all they paid and everyone else
\* at 0.
C17_DegenerateShareSplit ==
    /\ SplitComputed =>
           \A k \in TxIndices : Degenerate(transactions[k]) => splitAmounts[k] = <<>>
    /\ (Aggregated /\ \E k \in TxIndices : Degenerate(transactions[k])) =>
           \A i \in 1..Len(balances) :
               2 * Magnitude(balances[i].amount.v
                             - (PaidBy(balances[i].participant, transactions)
                                - OwedBy(balances[i].participant, splitAmounts))) <= Cent
    /\ (Aggregated /\ \A k \in TxIndices : Degenerate(transactions[k])) =>
           \A i \in 1..Len(balances) :
               balances[i].amount = Num(PaidBy(balances[i].participant, transactions))

\* one degenerate transaction: the payer holds the whole amount and the two
\* participants are at 0
C17_Witness ==
    /\ Aggregated
    /\ Len(transactions) = 1
    /\ Degenerate(transactions[1])
    /\ Len(balances) = 3
    /\ balances[1].amount = Num(transactions[1].amount)
    /\ balances[3].amount = Zero

\* C18: validateSplit returns an error on field 'splitDetails' if and only
\* if the sum of the amounts calculateSplitAmounts computes differs from the
\* transaction amount by more than 0.02; a difference of exactly 0.02 gives
\* no such error.
C18_SumErrorBeyondTolerance ==
    pc = "checked" =>
        ("splitDetails" \in Range(errors)
            <=> Magnitude(SumOfShares(splitAmounts[1]) - transactions[1].amount)
                    > SplitTolerance)

\* C19: validateSplit returns an error on field 'participants' if and only
\* if the split mode is equal and the payer is not in the participant list;
\* in the other modes a payer outside the list gives no such error.
C19_PayerErrorForEqualOnly ==
    pc = "checked" =>
        ("participants" \in Range(errors)
            <=> /\ transactions[1].splitType = "equal"
                /\ transactions[1].paidBy \notin Range(transactions[1].participants))

\* an equal split paid from outside the participants has been rejected, as
\* against a split of another mode paid from outside
C19_Witness ==
    /\ pc = "checked"
    /\ transactions[1].splitType = "equal"
    /\ transactions[1].paidBy \notin Range(transactions[1].participants)
    /\ errors = <<"participants">>

\* a step of calculateOptimizedSettlements, from the call to the return
OptimizerStep == pc \in {"given", "balances", "walking"} /\ pc' \in {"walking", "optimized"}

\* C20: calculateOptimizedSettlements leaves the caller's balance list as it
\* was: no step of it, from the call to the return, changes the entries, their
\* order or their amounts, although the walk decrements the remaining amounts.
C20_CallerListUnchanged == [][OptimizerStep => balances' = balances]_vars

\* the optimizer has returned and a creditor's remaining amount is no longer
\* the amount of the caller's entry
C20_Witness ==
    /\ pc = "optimized"
    /\ settlements # <<>>
    /\ \E m \in 1..Len(walk.creditors) :
           walk.creditors[m].amount # BalanceOf(balances, walk.creditors[m].participant)

\* an iteration of the matching loop
Iterates == pc = "walking" /\ walk'.iterations > walk.iterations

\* every iteration starts with both cursors inside their lists and moves the
\* creditor cursor, the debtor cursor or both forward
IterationAdvances ==
    Iterates =>
        /\ walk.i <= Len(walk.creditors) /\ walk.j <= Len(walk.debtors)
        /\ walk'.iterations = walk.iterations + 1
        /\ walk'.i >= walk.i /\ walk'.j >= walk.j
        /\ walk'.i > walk.i \/ walk'.j > walk.j

\* the loop has stopped with a cursor at the end of its list
StoppedAtEnd ==
    Returned => walk.i > Len(walk.creditors) \/ walk.j > Len(walk.debtors)

\* C21 as claimed: every iteration of the matching loop advances the creditor
\* cursor, the debtor cursor or both, the loop runs at most (number of
\* creditors + number of debtors - 1) iterations, and it stops as soon as
\* either cursor reaches the end of its list.
C21_LoopWithinCreditorsPlusDebtorsLessOne ==
    [][IterationAdvances]_vars
    /\ [](Partitioned =>
             walk.iterations <= Len(walk.creditors) + Len(walk.debtors) - 1)
    /\ []StoppedAtEnd

\* C21 as amended: the same, with at most max(0, number of creditors + number
\* of debtors - 1) iterations, which is none for a list with no creditor and
\* no debtor.
C21_LoopTerminates ==
    [][IterationAdvances]_vars
    /\ [](Partitioned =>
             walk.iterations <= (IF Len(walk.creditors) + Len(walk.debtors) = 0 THEN 0
                                 ELSE Len(walk.creditors) + Len(walk.debtors) - 1))
    /\ []StoppedAtEnd

\* two creditors and two debtors matched in three iterations
C21_Witness ==
    /\ pc = "optimized"
    /\ Len(walk.creditors) = 2
    /\ Len(walk.debtors) = 2
    /\ walk.iterations = 3

\* the amounts of the balance list are whole cents and sum to exactly zero
BalancedInCents ==
    /\ \A k \in 1..Len(balances) : balances[k].amount.v % Cent = 0
    /\ SumOfAmounts(balances) = 0

\* C22: for a balance list whose amounts, in whole cents, sum to exactly
\* zero, when the matching loop exits both cursors have reached the end of
\* their lists and every creditor and every debtor is left with a remaining
\* amount of at most 0.01.
C22_BothCursorsExhausted ==
    (Returned /\ BalancedInCents) =>
        /\ walk.i > Len(walk.creditors)
        /\ walk.j > Len(walk.debtors)
        /\ \A k \in 1..Len(walk.creditors) : walk.creditors[k].amount.v <= Cent
        /\ \A k \in 1..Len(walk.debtors) : walk.debtors[k].amount.v <= Cent

\* the place of x in the sequence s, 0 when x is not in it
PlaceIn(s, x) == IF x \in Range(s) THEN CHOOSE k \in 1..Len(s) : s[k] = x ELSE 0

\* the names in the order calculateBalances meets them: the known
\* participants, then for each transaction in turn its payer and the
\* participants its split makes owe
RECURSIVE NamesMet(_, _)
NamesMet(txs, shareMaps) ==
    IF Len(txs) = 0 THEN <<>>
    ELSE <<txs[1].paidBy>> \o [k \in 1..Len(shareMaps[1]) |-> shareMaps[1][k].key]
         \o NamesMet(Tail(txs), Tail(shareMaps))

FirstSeen ==
    Distinct((IF allParticipants.defined THEN allParticipants.list ELSE <<>>)
             \o NamesMet(transactions, splitAmounts))

\* the place of the first settlement of ss that names p under the field side
FirstSettlement(ss, side, p) ==
    LET places == {k \in 1..Len(ss) : (IF side = "to" THEN ss[k].to ELSE ss[k].from) = p}
    IN  IF places = {} THEN 0 ELSE CHOOSE k \in places : \A other \in places : k <= other

\* of two entries of a creditor or debtor list whose balances are equal, the
\* one earlier in the caller's list comes first, and is matched first
EarlierEqualFirst(entries, side) ==
    \A m, n \in 1..Len(entries) :
        LET p == entries[m].participant
            q == entries[n].participant
        IN  (/\ BalanceOf(balances, p) = BalanceOf(balances, q)
             /\ PlaceIn([k \in 1..Len(balances) |-> balances[k].participant], p)
                    < PlaceIn([k \in 1..Len(balances) |-> balances[k].participant], q))
            => /\ m < n
               /\ FirstSettlement(walk.settlements, side, q) # 0 =>
                      /\ FirstSettlement(walk.settlements, side, p) # 0
                      /\ FirstSettlement(walk.settlements, side, p)
                             < FirstSettlement(walk.settlements, side, q)

\* C23: ties are broken by original list order.  Among creditors with equal
\* amounts, and among debtors with equal magnitudes, the one earlier in the
\* balance list given to calculateOptimizedSettlements is matched first; and
\* calculateBalances lists participants with equal balances in the order it
\* first saw them: known participants, then transaction by transaction.
C23_TiesKeepListOrder ==
    /\ Partitioned =>
           /\ EarlierEqualFirst(walk.creditors, "to")
           /\ EarlierEqualFirst(walk.debtors, "from")
    /\ Aggregated =>
           \A i, j \in 1..Len(balances) :
               (i < j /\ balances[i].amount = balances[j].amount) =>
                   PlaceIn(FirstSeen, balances[i].participant)
                       < PlaceIn(FirstSeen, balances[j].participant)

\* two debtors of equal magnitude, both matched, the earlier one first
C23_Witness ==
    /\ pc = "optimized"
    /\ Len(settlements) >= 2
    /\ \E m, n \in 1..Len(balances) :
           /\ m < n
           /\ balances[m].amount = balances[n].amount
           /\ Less(balances[m].amount, Num(0 - Cent))
           /\ FirstSettlement(settlements, "from", balances[m].participant) # 0
           /\ FirstSettlement(settlements, "from", balances[n].participant) # 0

\* the total, in mills, of the amounts of the settlements of ss that name p
\* under the field side
RECURSIVE TotalSettled(_, _, _)
TotalSettled(ss, side, p) ==
    IF Len(ss) = 0 THEN 0
    ELSE (IF (IF side = "to" THEN ss[1].to ELSE ss[1].from) = p THEN ss[1].amount.v ELSE 0)
         + TotalSettled(Tail(ss), side, p)

\* nobody pays more than they owe or receives more than they are owed
NoOverpayment ==
    \A k \in 1..Len(balances) :
        /\ TotalSettled(walk.settlements, "from", balances[k].participant)
               <= (IF balances[k].amount.v < 0 THEN 0 - balances[k].amount.v ELSE 0)
        /\ TotalSettled(walk.settlements, "to", balances[k].participant)
               <= (IF balances[k].amount.v > 0 THEN balances[k].amount.v ELSE 0)

\* no remaining amount of the walk is negative
NoNegativeRemaining ==
    /\ \A m \in 1..Len(walk.creditors) : ~Less(walk.creditors[m].amount, Zero)
    /\ \A m \in 1..Len(walk.debtors) : ~Less(walk.debtors[m].amount, Zero)

\* C24 as claimed: for every balance list and every participant, the
\* settlement amounts the participant pays total at most the magnitude of
\* their negative balance and those they receive at most their positive
\* balance, and no remaining amount becomes negative during the walk.
C24_NoOverpaymentAnyList ==
    Partitioned => NoOverpayment /\ NoNegativeRemaining

\* C24 as amended: the same for every balance list of whole-cent amounts.
C24_NoOverpayment ==
    Partitioned =>
        /\ (\A k \in 1..Len(balances) : balances[k].amount.v % Cent = 0) => NoOverpayment
        /\ NoNegativeRemaining

\* a creditor paid in full by two debtors
C24_Witness ==
    /\ pc = "optimized"
    /\ \A k \in 1..Len(balances) : balances[k].amount.v % Cent = 0
    /\ \E k \in 1..Len(balances) :
           /\ balances[k].amount.v > Cent
           /\ TotalSettled(settlements, "to", balances[k].participant) = balances[k].amount.v
           /\ Cardinality({m \in 1..Len(settlements) :
                               settlements[m].to = balances[k].participant}) = 2

FromNames(ss) == {ss[k].from : k \in 1..Len(ss)}

ToNames(ss) == {ss[k].to : k \in 1..Len(ss)}

\* C25: in the list calculateOptimizedSettlements returns nobody both pays
\* and receives, and each ordered pair (from, to) occurs in at most one
\* settlement.
C25_PayersAndReceiversDisjoint ==
    Returned =>
        /\ FromNames(settlements) \cap ToNames(settlements) = {}
        /\ \A m, n \in 1..Len(settlements) :
               (settlements[m].from = settlements[n].from
                    /\ settlements[m].to = settlements[n].to) => m = n

\* three settlements among two payers and two receivers
C25_Witness ==
    /\ pc = "optimized"
    /\ Len(settlements) = 3
    /\ Cardinality(FromNames(settlements)) = 2
    /\ Cardinality(ToNames(settlements)) = 2

\* the split details are not empty and name distinct participants
DistinctDetails(t) ==
    /\ t.splitDetails # <<>>
    /\ \A m, n \in 1..Len(t.splitDetails) :
           m # n => t.splitDetails[m].participant # t.splitDetails[n].participant

RECURSIVE SumOfPercentages(_)
SumOfPercentages(details) ==
    IF Len(details) = 0 THEN 0
    ELSE (IF details[1].percentage = Undefined THEN 0 ELSE details[1].percentage)
         + SumOfPercentages(Tail(details))

\* C26: for a percentage transaction whose non-empty split details name
\* distinct participants validateSplit never returns the 'splitDetails'
\* error, whatever the percentages are and whatever they sum to.
C26_PercentageNeverMismatches ==
    (/\ pc = "checked"
     /\ transactions[1].splitType = "percentage"
     /\ DistinctDetails(transactions[1]))
    => "splitDetails" \notin Range(errors)

\* percentages that do not sum to 100 have passed
C26_Witness ==
    /\ pc = "checked"
    /\ transactions[1].splitType = "percentage"
    /\ DistinctDetails(transactions[1])
    /\ SumOfPercentages(transactions[1].splitDetails) > 100
    /\ errors = <<>>

\* C27: for a percentage transaction of positive amount whose details give
\* each of its distinct participants a percentage between 0 and 100, the
\* percentages summing to exactly 100, every amount calculateSplitAmounts
\* returns is greater than or equal to 0.
C27_NoNegativeShare ==
    SplitComputed =>
        \A k \in TxIndices :
            (/\ PercentageDetailed(transactions[k])
             /\ transactions[k].amount > 0
             /\ \A m \in 1..Len(transactions[k].splitDetails) :
                    transactions[k].splitDetails[m].percentage \in 0..100
             /\ SumOfPercentages(transactions[k].splitDetails) = 100)
            => \A m \in 1..Len(splitAmounts[k]) : ~Less(splitAmounts[k][m].value, Zero)


\* every call made on the store has completed with a response that is ok
AllSucceeded == \A k \in DOMAIN calls : calls[k].outcome = Ok

\* some call was issued while an earlier call's fetch had not resolved
Overlapped == \E k \in DOMAIN calls : calls[k].overlaps

\* the response to the most recently issued call
LatestResponse == settleRoute(calls[Len(calls)].body)

\* C28: in the transaction store, when calculateSettlement calls overlap, then
\* once all calls have completed successfully settlementResult is the result
\* computed for the transactions of the most recently issued call, whatever the
\* order in which the responses arrive
C28_LatestCallWins ==
    (Len(calls) >= 2 /\ Overlapped /\ AllSucceeded)
        => store.settlementResult = Some(LatestResponse)

\* call k is issued in this step
Issued(k) == k = Len(calls) + 1 /\ Len(calls') = k

\* the fetch of call k resolves or rejects in this step
Completes(k) == k \in DOMAIN calls /\ calls[k].outcome = Pending /\ calls'[k].outcome # Pending

\* the message of an outcome that is not ok: the message of a rejected fetch,
\* the message of the response's body, the fixed text when the body has none
FailureMessage(outcome) ==
    CASE outcome.kind = "rejected" -> outcome.message[1]
      [] outcome.kind = "status" /\ outcome.message # Null -> outcome.message[1]
      [] OTHER -> "Failed to calculate settlement"

CallStep ==
    \A k \in 1..MaxCalls :
        /\ (Issued(k) /\ store.transactions # <<>>)
               => /\ store'.isLoading = TRUE
                  /\ store'.error = Null
                  /\ calls'[k].outcome = Pending
        /\ (Issued(k) /\ store.transactions = <<>>)
               => /\ store'.settlementResult = Null
                  /\ store'.isLoading = store.isLoading
                  /\ store'.error = store.error
                  /\ calls'[k].outcome = Skipped
        /\ (Completes(k) /\ calls'[k].outcome = Ok)
               => /\ store'.isLoading = FALSE
                  /\ store'.settlementResult = Some(settleRoute(calls[k].body))
        /\ (Completes(k) /\ calls'[k].outcome # Ok)
               => /\ store'.isLoading = FALSE
                  /\ store'.settlementResult = store.settlementResult
                  /\ store'.error = Some(FailureMessage(calls'[k].outcome))

\* C29: in the transaction store, a calculateSettlement call with a non-empty
\* transaction list sets isLoading to true and error to null before the request;
\* when its fetch resolves or rejects it sets isLoading to false, sets
\* settlementResult on success, and on failure leaves settlementResult as it was
\* and sets error to the failure message; a call with no transactions sets
\* settlementResult to null and changes neither isLoading nor error
C29_CallSetsLoadingResultAndError == [][CallStep]_vars

\* a call failed with a response that carries no message, after an earlier call
\* had stored its result
C29_Witness ==
    /\ Len(calls) = 2
    /\ calls[1].outcome = Ok
    /\ calls[2].outcome \in Failures
    /\ store.settlementResult # Null
    /\ store.error = Some("Failed to calculate settlement")
    /\ ~store.isLoading

\* the name is empty, or starts or ends with whitespace
Untidy(name) ==
    \/ name = <<>>
    \/ name[1] \in WhiteSpace
    \/ name[Len(name)] \in WhiteSpace

\* no empty name, no name with leading or trailing whitespace, no name twice
TidyParticipants ==
    LET list == group.participants
    IN  /\ \A i \in DOMAIN list : ~Untidy(list[i])
        /\ \A i, k \in DOMAIN list : list[i] = list[k] => i = k

\* raw is the name with nothing but whitespace before and after it
TrimsTo(raw, name) ==
    \E a, b \in 0 .. Len(raw) :
        /\ a + b <= Len(raw)
        /\ \A i \in 1 .. a : raw[i] \in WhiteSpace
        /\ \A i \in (Len(raw) - b + 1) .. Len(raw) : raw[i] \in WhiteSpace
        /\ SubSeq(raw, a + 1, Len(raw) - b) = name

\* after is before without its entry at the index (counted from 0), and is
\* before when it has no such entry
WithoutEntry(before, after, index) ==
    IF index \in 0 .. (Len(before) - 1)
    THEN /\ Len(after) = Len(before) - 1
         /\ \A i \in 1 .. index : after[i] = before[i]
         /\ \A i \in (index + 1) .. Len(after) : after[i] = before[i + 1]
    ELSE after = before

GroupStep ==
    /\ (/\ lastCall'.name = "addParticipant"
        /\ \E i \in DOMAIN group.participants : TrimsTo(lastCall'.raw, group.participants[i]))
           => group'.participants = group.participants
    /\ lastCall'.name = "removeParticipant"
           => WithoutEntry(group.participants, group'.participants, lastCall'.index)

\* C30: in the participant store, after any sequence of addParticipant,
\* removeParticipant and resetGroup from the initial empty state, the list holds
\* no empty name, no name with leading or trailing whitespace and no name twice;
\* addParticipant with a name already present after trimming leaves the list
\* unchanged, and removeParticipant removes only the entry at the given index
C30_ParticipantsTrimmedAndDistinct == []TidyParticipants /\ [][GroupStep]_vars

\* "A" typed with whitespace around it was added while "A" was in the list,
\* behind a name typed with whitespace and one with a space inside it
C30_Witness ==
    /\ lastCall = Call("addParticipant", <<"\t", "A", " ">>, 0)
    /\ group.participants = <<<<"B">>, <<"A", " ", "B">>, <<"A">>>>
====
